---- MODULE Spec2Model ----
(***************************************************************************)
(* Model of src/src/web/app.py: the VATSIM station tracker                 *)
(* (monitor_vatsim, run on the Discord client's thread) next to the Flask  *)
(* request handler (index, run on the web server's thread).  The two       *)
(* threads share monitored_stations, station_status, logs and debug_mode   *)
(* without a lock; every access to shared state is one step of the model.  *)
(* One request is handled at a time; ticks do not overlap (tasks.loop).    *)
(***************************************************************************)
EXTENDS Naturals, Sequences, FiniteSets

VARIABLES
    DISCORD_ENABLED,     \* app.py:24/40, fixed at start-up
    monitored_stations,  \* app.py:45
    station_status,      \* app.py:46, a function on the keys present
    logs,                \* app.py:47, entries stamped with their append number
    debug_mode,          \* app.py:48
    lg,                  \* per thread: position inside log()
    tpc,                 \* tracker: position inside monitor_vatsim
    online_callsigns,    \* tracker local, app.py:132
    station,             \* tracker local: the loop variable of app.py:134
    was_online,          \* tracker local, app.py:136
    it_used,             \* set iterator: size of the set when it was created
    it_ahead,            \* set iterator: members it has not passed yet
    it_started,          \* set iterator: has yielded at least once
    hpc,                 \* handler: position inside index
    hstation,            \* handler local: `station` of app.py:69/75
    nAppended,           \* history: number of entries ever appended to logs
    nEvents,             \* history: ticks and requests started since the initial state
    nFailed,             \* history: notification deliveries that failed
    onPings,             \* history: per station, "is now ONLINE" send_ping calls
    offPings,            \* history: per station, "is now OFFLINE" send_ping calls
    feedLast,            \* history: online set of the last parsed feed
    rises,               \* history: per station, offline->online changes of the feed
    falls,               \* history: per station, online->offline changes of the feed
    everRemoved,         \* history: identifiers remove_station was applied to
    sinceRemoved,        \* history: per station, progress of ticks since its removal
    tickPayload,         \* history: payload fetched by the current/last tick
    tickExc,             \* history: where the current/last tick raised
    tickWarned,          \* history: the current/last tick logged the WARNING line
    tickErrLogged,       \* history: the current/last tick logged the ERROR line
    tickWritten,         \* history: stations whose status the current/last tick wrote
    tickPinged,          \* history: stations the current/last tick sent a transition ping for
    tickDebugSeen,       \* history: debug_mode values held during the current/last tick
    tickDbgPings,        \* history: debug send_ping calls of the current/last tick
    prevExc,             \* history: tickExc of the tick before
    hOp,                 \* history: the kind of the current/last request
    hAbsent,             \* history: the request's identifier was not monitored at its start
    hOverlap,            \* history: a tick was in flight at some point of the request
    hRaw,                \* history: the form value of the current/last request
    hLogged,             \* history: log() calls of the current/last request
    view,                \* handler: what the GET request hands to render_template (app.py:86-91)
    tickSteady,          \* history: monitored when the current/last tick began, no request on them since
    addedFresh,          \* history: stations added and neither written by a tick nor removed since
    tickFirst,           \* history: addedFresh when the current/last tick began
    everMonitored,       \* history: identifiers that have been in monitored_stations
    lastPing,            \* history: per station, the last transition ping since it was last added
    tickFailed,          \* history: stations whose transition ping of the current/last tick was not delivered
    tickLogged,          \* history: stations whose transition the current/last tick logged
    failedFor,           \* history: stations that had a transition ping not delivered
    nToggles,            \* history: toggle_debug requests made
    hInFlight,           \* history: a tick was in flight when the current/last request began
    hTickAfter           \* history: a tick has begun since the current/last request began

vars == <<DISCORD_ENABLED, monitored_stations, station_status, logs,
          debug_mode, lg, tpc, online_callsigns, station, was_online, it_used,
          it_ahead, it_started, hpc, hstation, nAppended, nEvents, nFailed,
          onPings, offPings, feedLast, rises, falls, everRemoved,
          sinceRemoved, tickPayload, tickExc, tickWarned, tickErrLogged,
          tickWritten, tickPinged, tickDebugSeen, tickDbgPings, prevExc, hOp,
          hAbsent, hOverlap, hRaw, hLogged, view, tickSteady, addedFresh,
          tickFirst, everMonitored, lastPing, tickFailed, tickLogged,
          failedFor, nToggles, hInFlight, hTickAfter>>

shared   == <<monitored_stations, station_status, logs, debug_mode>>
tlocals  == <<tpc, online_callsigns, station, was_online, it_used, it_ahead, it_started>>
hlocals  == <<hpc, hstation>>
pingHist == <<onPings, offPings>>
pingAll  == <<onPings, offPings, nFailed>>
feedHist == <<feedLast, rises, falls>>
rmHist   == <<everRemoved, sinceRemoved>>
tickHist == <<tickPayload, tickExc, tickWarned, tickErrLogged, tickWritten,
              tickPinged, tickDebugSeen, tickDbgPings, prevExc>>
reqHist  == <<hOp, hAbsent, hOverlap>>
sharedNoLog == <<monitored_stations, station_status, debug_mode>>

(***************************************************************************)
(* Bounds of the model and constants of the program.                       *)
(***************************************************************************)
MaxEvents   == 3
MaxFailures == 1
LogCap      == 300

Tracker == "tracker"
Handler == "handler"
Threads == {Tracker, Handler}

NoStation == << >>
StA == <<"A">>
StB == <<"B">>
Stations == {StA, StB}

(***************************************************************************)
(* request.form["station"].upper().strip()                                 *)
(***************************************************************************)
UpperChar(c) == CASE c = "a" -> "A" [] c = "b" -> "B" [] OTHER -> c

Upper(str) == [i \in 1..Len(str) |-> UpperChar(str[i])]

RECURSIVE LStrip(_)
LStrip(str) == IF str # << >> /\ Head(str) = " " THEN LStrip(Tail(str)) ELSE str

RECURSIVE RStrip(_)
RStrip(str) ==
    IF str # << >> /\ str[Len(str)] = " "
    THEN RStrip(SubSeq(str, 1, Len(str) - 1))
    ELSE str

\* faulty variant: lstrip() in place of strip()
StripLeftOnly(str) == LStrip(str)

\* str.strip()
Strip(str) == RStrip(LStrip(str))

Normalize(raw) == Strip(Upper(raw))

(***************************************************************************)
(* sorted(monitored_stations): strings compare by code point, character by *)
(* character, a proper prefix before the longer string.                    *)
(***************************************************************************)
Ord(c) == CASE c = " " -> 32 [] c = "A" -> 65 [] c = "B" -> 66
            [] c = "a" -> 97 [] c = "b" -> 98

RECURSIVE StrLess(_, _)
StrLess(x, y) ==
    IF x = << >> THEN y # << >>
    ELSE IF y = << >> THEN FALSE
    ELSE IF Head(x) = Head(y) THEN StrLess(Tail(x), Tail(y))
    ELSE Ord(Head(x)) < Ord(Head(y))

Least(S) == CHOOSE x \in S : \A y \in S \ {x} : StrLess(x, y)

\* faulty variant: sorted(..., reverse=True)
RECURSIVE SortedDescending(_)
SortedDescending(S) ==
    IF S = {} THEN << >>
    ELSE LET g == CHOOSE x \in S : \A y \in S \ {x} : StrLess(y, x)
         IN  <<g>> \o SortedDescending(S \ {g})

\* sorted(S)
RECURSIVE Sorted(_)
Sorted(S) == IF S = {} THEN << >> ELSE <<Least(S)>> \o Sorted(S \ {Least(S)})

AddInputs    == { <<" ", "a">>, <<"b", " ">>, <<" ">> }
RemoveInputs == { StA, StB }

(***************************************************************************)
(* The feed: what requests.get(...).json() hands to the tick.  A payload   *)
(* either raises (network error, timeout, body that is not JSON) or is a   *)
(* JSON document: an object or not; with or without the key "controllers"; *)
(* whose value is a list or not; whose items are objects or not, each      *)
(* object with or without the key "callsign".                              *)
(***************************************************************************)
Ctrl(cs)     == [isObject |-> TRUE,  hasCallsign |-> TRUE,  callsign |-> cs]
CtrlNoCall   == [isObject |-> TRUE,  hasCallsign |-> FALSE, callsign |-> NoStation]
CtrlNumber   == [isObject |-> FALSE, hasCallsign |-> FALSE, callsign |-> NoStation]

Document(top, key, list, items) ==
    [raises |-> FALSE, isObject |-> top, hasKey |-> key, isList |-> list, items |-> items]

PRaise      == [raises |-> TRUE, isObject |-> FALSE, hasKey |-> FALSE,
                isList |-> FALSE, items |-> {}]
PArray      == Document(FALSE, FALSE, FALSE, {})
PNoKey      == Document(TRUE, FALSE, FALSE, {})
PNotList    == Document(TRUE, TRUE, FALSE, {})
PList(on)   == Document(TRUE, TRUE, TRUE, {Ctrl(s) : s \in on})
PNoCallsign == Document(TRUE, TRUE, TRUE, {Ctrl(StA), CtrlNoCall})
PNonObject  == Document(TRUE, TRUE, TRUE, {Ctrl(StA), CtrlNumber})

Payloads == {PRaise, PArray, PNoKey, PNotList, PNoCallsign, PNonObject}
            \cup {PList(on) : on \in SUBSET Stations}

\* data.get("controllers", []): the default is the empty list
EmptyList == [isList |-> TRUE, items |-> {}]

Controllers(data) ==
    IF data.hasKey THEN [isList |-> data.isList, items |-> data.items] ELSE EmptyList

\* `if not isinstance(controllers, list)`: the WARNING branch
WarnsInvalid(data) == ~ Controllers(data).isList

Checked(data) == IF WarnsInvalid(data) THEN EmptyList ELSE Controllers(data)

\* `"callsign" in ctrl` raises TypeError on an item that is no container
ComprehensionRaises(controllers) == \E c \in controllers.items : ~ c.isObject

OnlineCallsigns(controllers) ==
    {c.callsign : c \in {d \in controllers.items : d.hasCallsign}}

\* where lines 124-132 raise on this payload: "fetch" (124-125), "parse" (127-132)
FetchOutcome(data) ==
    IF data.raises THEN "fetch"
    ELSE IF ~ data.isObject THEN "parse"
    ELSE IF ComprehensionRaises(Checked(data)) THEN "parse"
    ELSE "none"

(***************************************************************************)
(* log(msg): append, then evict the head once the length exceeds the cap.  *)
(* The three list operations are three steps; the caller continues when    *)
(* lg[t] is back to "none".                                                *)
(***************************************************************************)
Entry(k, s, n) == [k |-> k, s |-> s, n |-> n]

LogAppend(t, k, s) ==
    /\ logs' = Append(logs, Entry(k, s, nAppended + 1))
    /\ nAppended' = nAppended + 1
    /\ lg' = [lg EXCEPT ![t] = "check"]

\* len(logs) > 300
ExceedsCap(l) == Len(l) > LogCap

\* faulty variant: logs.pop() in place of logs.pop(0)
EvictNewest(l) == SubSeq(l, 1, Len(l) - 1)

\* logs.pop(0)
Evict(l) == Tail(l)

LogCheck(t) ==
    /\ lg[t] = "check"
    /\ lg' = [lg EXCEPT ![t] = IF ExceedsCap(logs) THEN "pop" ELSE "none"]
    /\ UNCHANGED <<DISCORD_ENABLED, shared, tlocals, hlocals,
                   nAppended, nEvents, pingAll, feedHist, rmHist,
                   tickHist, reqHist, hRaw, hLogged, view, tickSteady,
                   addedFresh, tickFirst, everMonitored, lastPing,
                   tickFailed, tickLogged, failedFor, nToggles,
                   hInFlight, hTickAfter>>

LogPop(t) ==
    /\ lg[t] = "pop"
    /\ logs' = Evict(logs)
    /\ lg' = [lg EXCEPT ![t] = "none"]
    /\ UNCHANGED <<DISCORD_ENABLED, monitored_stations,
                   station_status, debug_mode, tlocals, hlocals,
                   nAppended, nEvents, pingAll, feedHist, rmHist,
                   tickHist, reqHist, hRaw, hLogged, view, tickSteady,
                   addedFresh, tickFirst, everMonitored, lastPing,
                   tickFailed, tickLogged, failedFor, nToggles,
                   hInFlight, hTickAfter>>

(***************************************************************************)
(* Start-up (app.py:168-177, 155-160) and the states it leads to.          *)
(***************************************************************************)
StartLogDisabled == << Entry("integration DISABLED", NoStation, 1) >>

StartLogEnabled ==
    << Entry("integration ENABLED", NoStation, 1),
       Entry("bot connected", NoStation, 2),
       Entry("task started", NoStation, 3) >>

\* the log after LogCap ticks over an empty monitored set: the three start-up
\* lines are evicted and every entry is a "monitor_vatsim tick" line
IdleLog == [i \in 1..LogCap |-> Entry("monitor_vatsim tick", NoStation, i + 3)]

\* no page has been rendered
NoView == [stations |-> << >>, logs |-> << >>, debug_mode |-> FALSE, rendered |-> FALSE]

Zero == [s \in Stations |-> 0]

OnceForA == [s \in Stations |-> IF s = StA THEN 1 ELSE 0]

NoStatus == [s \in {} |-> FALSE]

\* no tick and no request in progress
Quiet ==
    /\ lg = [t \in Threads |-> "none"]
    /\ tpc = "idle"
    /\ online_callsigns = {}
    /\ station = NoStation
    /\ was_online = FALSE
    /\ it_used = 0
    /\ it_ahead = {}
    /\ it_started = FALSE
    /\ hpc = "idle"
    /\ tickPinged = {}
    /\ tickFailed = {}
    /\ tickLogged = {}
    /\ failedFor = {}
    /\ tickSteady = {}
    /\ everMonitored = monitored_stations
    /\ tickFirst = {}
    /\ nAppended = logs[Len(logs)].n
    /\ nEvents = 0
    /\ nFailed = 0
    /\ debug_mode = FALSE
    /\ nToggles = 0
    /\ offPings = Zero
    /\ lastPing = [s \in Stations |-> "none"]
    /\ falls = Zero
    /\ everRemoved = {}
    /\ sinceRemoved = Zero
    /\ tickExc = "none"
    /\ tickWarned = FALSE
    /\ tickErrLogged = FALSE
    /\ tickDbgPings = 0
    /\ hOverlap = FALSE

\* no tick has run yet
NoTickYet ==
    /\ station_status = NoStatus
    /\ onPings = Zero
    /\ feedLast = {}
    /\ rises = Zero
    /\ tickPayload = PRaise
    /\ tickWritten = {}
    /\ tickDebugSeen = {}
    /\ prevExc = "none"

\* no request has been made yet
NoRequestYet ==
    /\ monitored_stations = {}
    /\ hstation = NoStation
    /\ hOp = "none"
    /\ hInFlight = FALSE
    /\ hTickAfter = FALSE
    /\ addedFresh = {}
    /\ view = NoView
    /\ hRaw = NoStation
    /\ hLogged = 0
    /\ hAbsent = FALSE

\* the state after start-up, integration enabled or disabled (app.py:22-48, 168-177)
InitFresh ==
    /\ DISCORD_ENABLED \in BOOLEAN
    /\ logs = IF DISCORD_ENABLED THEN StartLogEnabled ELSE StartLogDisabled
    /\ NoRequestYet
    /\ NoTickYet
    /\ Quiet

\* the state LogCap ticks over an empty monitored set lead to
InitAged ==
    /\ DISCORD_ENABLED = TRUE
    /\ logs = IdleLog
    /\ NoRequestYet
    /\ station_status = NoStatus
    /\ onPings = Zero
    /\ feedLast = {}
    /\ rises = Zero
    /\ tickPayload = PList({})
    /\ tickWritten = {}
    /\ tickDebugSeen = {FALSE}
    /\ prevExc = "none"
    /\ Quiet

MonitoredLog == Append(StartLogEnabled, Entry("Started monitoring", StA, 4))

\* the state add_station(" a") leads to from start-up
InitMonitored ==
    /\ DISCORD_ENABLED = TRUE
    /\ logs = MonitoredLog
    /\ monitored_stations = {StA}
    /\ hstation = StA
    /\ hOp = "add"
    /\ hInFlight = FALSE
    /\ hTickAfter = FALSE
    /\ addedFresh = {StA}
    /\ view = NoView
    /\ hRaw = <<" ", "a">>
    /\ hLogged = 1
    /\ hAbsent = TRUE
    /\ NoTickYet
    /\ Quiet

StaleLog ==
    MonitoredLog \o
    << Entry("monitor_vatsim tick", NoStation, 5),
       Entry("Discord message sent", NoStation, 6),
       Entry("Stopped monitoring", StA, 7),
       Entry("logged ON", StA, 8),
       Entry("ERROR in VATSIM section", NoStation, 9) >>

\* the state add_station(" a"), then a tick that finds A online with
\* remove_station("A") running between its send_ping and its line 145 lead to:
\* A is not monitored and has the status the tick wrote after the removal
InitStale ==
    /\ DISCORD_ENABLED = TRUE
    /\ monitored_stations = {}
    /\ station_status = [s \in {StA} |-> TRUE]
    /\ logs = StaleLog
    /\ debug_mode = FALSE
    /\ nToggles = 0
    /\ lg = [t \in Threads |-> "none"]
    /\ tpc = "idle"
    /\ online_callsigns = {}
    /\ station = NoStation
    /\ was_online = FALSE
    /\ it_used = 0
    /\ it_ahead = {}
    /\ it_started = FALSE
    /\ hpc = "idle"
    /\ hstation = StA
    /\ view = NoView
    /\ nAppended = 9
    /\ nEvents = 0
    /\ nFailed = 0
    /\ onPings = OnceForA
    /\ offPings = Zero
    /\ lastPing = [s \in Stations |-> IF s = StA THEN "on" ELSE "none"]
    /\ feedLast = {StA}
    /\ rises = OnceForA
    /\ falls = Zero
    /\ everMonitored = {StA}
    /\ everRemoved = {StA}
    /\ sinceRemoved = OnceForA
    /\ addedFresh = {}
    /\ tickPayload = PList({StA})
    /\ tickExc = "iter"
    /\ tickWarned = FALSE
    /\ tickErrLogged = TRUE
    /\ tickWritten = {StA}
    /\ tickPinged = {StA}
    /\ tickFailed = {}
    /\ tickLogged = {StA}
    /\ failedFor = {}
    /\ tickSteady = {}
    /\ tickFirst = {StA}
    /\ tickDebugSeen = {FALSE}
    /\ tickDbgPings = 0
    /\ prevExc = "first"
    /\ hOp = "remove"
    /\ hInFlight = TRUE
    /\ hTickAfter = FALSE
    /\ hRaw = StA
    /\ hLogged = 1
    /\ hAbsent = FALSE
    /\ hOverlap = TRUE

\* The state after start-up, and three states the program reaches from it: the
\* runs from them stand for the runs that pass through them.  nEvents and
\* nFailed count from the initial state.
Init == InitFresh \/ InitAged \/ InitMonitored \/ InitStale

(***************************************************************************)
(* dict and set helpers                                                    *)
(***************************************************************************)
\* faulty variant: the stored value is never looked at
GetDefaultOnly(d, key, default) == default

\* station_status.get(key, default)
Get(d, key, default) == IF key \in DOMAIN d THEN d[key] ELSE default

\* station_status[key] = value
Put(d, key, value) == [x \in DOMAIN d \cup {key} |-> IF x = key THEN value ELSE d[x]]

\* faulty variant: the entry is set to False in place of being deleted
PopSetsFalse(d, key) == Put(d, key, FALSE)

\* faulty variant: the entry is left in place
PopNothing(d, key) == d

\* station_status.pop(key, None)
Pop(d, key) == [x \in DOMAIN d \ {key} |-> d[x]]

NoLog == UNCHANGED <<logs, nAppended, lg>>

TrackerBusy == tpc # "idle" \/ lg[Tracker] # "none"

\* a tick has run and has returned, and the next has not begun
TickFinished == ~ TrackerBusy /\ tickDebugSeen # {}
HandlerBusy == hpc # "idle" \/ lg[Handler] # "none"

\* the positions of the tick at which the iterator of `for station in
\* monitored_stations` is alive
IterPcs == {"next", "read", "ping_on", "log_on", "ping_off", "log_off", "write"}

(***************************************************************************)
(* monitor_vatsim: one tick (app.py:119-153)                               *)
(***************************************************************************)
\* app.py:121
TickBegin ==
    /\ DISCORD_ENABLED
    /\ tpc = "idle"
    /\ lg[Tracker] = "none"
    /\ nEvents < MaxEvents
    /\ LogAppend(Tracker, "monitor_vatsim tick", NoStation)
    /\ tpc' = "fetch"
    /\ nEvents' = nEvents + 1
    /\ tickPayload' = PRaise
    /\ tickExc' = "none"
    /\ tickWarned' = FALSE
    /\ tickErrLogged' = FALSE
    /\ tickWritten' = {}
    /\ tickPinged' = {}
    /\ tickFailed' = {}
    /\ tickLogged' = {}
    /\ tickSteady' = monitored_stations
    /\ tickFirst' = addedFresh
    /\ tickDebugSeen' = {debug_mode}
    /\ tickDbgPings' = 0
    /\ prevExc' = IF tickDebugSeen = {} THEN "first" ELSE tickExc
    /\ sinceRemoved' = [s \in Stations |-> IF sinceRemoved[s] = 1 THEN 2 ELSE sinceRemoved[s]]
    /\ hOverlap' = (hOverlap \/ HandlerBusy)
    /\ hTickAfter' = TRUE
    /\ UNCHANGED <<DISCORD_ENABLED, monitored_stations,
                   station_status, debug_mode, online_callsigns,
                   station, was_online, it_used, it_ahead, it_started,
                   hlocals, pingAll, feedHist, everRemoved, hOp,
                   hAbsent, hRaw, hLogged, view, addedFresh,
                   everMonitored, lastPing, failedFor, nToggles,
                   hInFlight>>

Rise(s, before, now) == IF s \in now /\ s \notin before THEN 1 ELSE 0

\* faulty variant: the handler of the exception falls into the loop over the stations
AfterRaiseIntoLoop == "iter"

\* where the tick goes on after `except Exception` (app.py:147-151)
AfterRaise == "debug"

\* app.py:123-132, and 147-148 when they raise
Fetch(data) ==
    /\ tpc = "fetch"
    /\ lg[Tracker] = "none"
    /\ tickPayload' = data
    /\ tickExc' = FetchOutcome(data)
    /\ IF FetchOutcome(data) # "none"
       THEN /\ LogAppend(Tracker, "ERROR in VATSIM section", NoStation)
            /\ tickErrLogged' = TRUE
            /\ tpc' = AfterRaise
            /\ UNCHANGED <<online_callsigns, feedHist, tickWarned>>
       ELSE /\ online_callsigns' = OnlineCallsigns(Checked(data))
            /\ IF WarnsInvalid(data)
               THEN /\ LogAppend(Tracker, "WARNING: 'controllers' missing or invalid", NoStation)
                    /\ tickWarned' = TRUE
               ELSE NoLog /\ UNCHANGED tickWarned
            /\ tpc' = "iter"
            /\ feedLast' = online_callsigns'
            /\ rises' = [s \in Stations |-> rises[s] + Rise(s, feedLast, online_callsigns')]
            /\ falls' = [s \in Stations |-> falls[s] + Rise(s, online_callsigns', feedLast)]
            /\ UNCHANGED tickErrLogged
    /\ UNCHANGED <<DISCORD_ENABLED, monitored_stations,
                   station_status, debug_mode, station, was_online,
                   it_used, it_ahead, it_started, hlocals, nEvents,
                   pingAll, rmHist, tickWritten, tickPinged,
                   tickDebugSeen, tickDbgPings, prevExc, reqHist,
                   hRaw, hLogged, view, tickSteady, addedFresh,
                   tickFirst, everMonitored, lastPing, tickFailed,
                   tickLogged, failedFor, nToggles, hInFlight,
                   hTickAfter>>

\* app.py:134, iter(monitored_stations)
IterInit ==
    /\ tpc = "iter"
    /\ lg[Tracker] = "none"
    /\ it_used' = Cardinality(monitored_stations)
    /\ it_ahead' = monitored_stations
    /\ it_started' = FALSE
    /\ tpc' = "next"
    /\ NoLog
    /\ UNCHANGED <<DISCORD_ENABLED, monitored_stations,
                   station_status, debug_mode, online_callsigns,
                   station, was_online, hlocals, nEvents, pingAll,
                   feedHist, rmHist, tickHist, reqHist, hRaw, hLogged,
                   view, tickSteady, addedFresh, tickFirst,
                   everMonitored, lastPing, tickFailed, tickLogged,
                   failedFor, nToggles, hInFlight, hTickAfter>>

\* the set iterator's check: "Set changed size during iteration"
SizeChanged == Cardinality(monitored_stations) # it_used

\* app.py:134, next() raising RuntimeError, caught at app.py:147-148
IterRaise ==
    /\ tpc = "next"
    /\ lg[Tracker] = "none"
    /\ SizeChanged
    /\ tickExc' = "iter"
    /\ LogAppend(Tracker, "ERROR in VATSIM section", NoStation)
    /\ tickErrLogged' = TRUE
    /\ tpc' = AfterRaise
    /\ station' = NoStation
    /\ was_online' = FALSE
    /\ it_used' = 0
    /\ it_ahead' = {}
    /\ it_started' = FALSE
    /\ UNCHANGED <<DISCORD_ENABLED, monitored_stations,
                   station_status, debug_mode, online_callsigns,
                   hlocals, nEvents, pingAll, feedHist, rmHist,
                   tickPayload, tickWarned, tickWritten, tickPinged,
                   tickDebugSeen, tickDbgPings, prevExc, reqHist,
                   hRaw, hLogged, view, tickSteady, addedFresh,
                   tickFirst, everMonitored, lastPing, tickFailed,
                   tickLogged, failedFor, nToggles, hInFlight,
                   hTickAfter>>

\* app.py:134, next() yielding a member
IterYield(s) ==
    /\ tpc = "next"
    /\ lg[Tracker] = "none"
    /\ ~ SizeChanged
    /\ s \in it_ahead
    /\ station' = s
    /\ it_ahead' = it_ahead \ {s}
    /\ it_started' = TRUE
    /\ tpc' = "read"
    /\ NoLog
    /\ UNCHANGED <<DISCORD_ENABLED, sharedNoLog, online_callsigns,
                   was_online, it_used, hlocals, nEvents, pingAll,
                   feedHist, rmHist, tickHist, reqHist, hRaw, hLogged,
                   view, tickSteady, addedFresh, tickFirst,
                   everMonitored, lastPing, tickFailed, tickLogged,
                   failedFor, nToggles, hInFlight, hTickAfter>>

\* app.py:134, next() raising StopIteration: the loop ends
IterStop ==
    /\ tpc = "next"
    /\ lg[Tracker] = "none"
    /\ ~ SizeChanged
    /\ it_ahead = {}
    /\ tpc' = "debug"
    /\ station' = NoStation
    /\ it_used' = 0
    /\ it_started' = FALSE
    /\ NoLog
    /\ UNCHANGED <<DISCORD_ENABLED, sharedNoLog, online_callsigns,
                   was_online, it_ahead, hlocals, nEvents, pingAll,
                   feedHist, rmHist, tickHist, reqHist, hRaw, hLogged,
                   view, tickSteady, addedFresh, tickFirst,
                   everMonitored, lastPing, tickFailed, tickLogged,
                   failedFor, nToggles, hInFlight, hTickAfter>>

\* faulty variant: ONLINE is announced whenever the station is online
CompareIgnoresWas(is_online, was) ==
    IF is_online THEN "ping_on"
    ELSE IF was THEN "ping_off"
    ELSE "write"

\* app.py:138-141: which branch the comparison takes
Compare(is_online, was) ==
    IF is_online /\ ~ was THEN "ping_on"
    ELSE IF ~ is_online /\ was THEN "ping_off"
    ELSE "write"

\* app.py:135-141
ReadStatus ==
    /\ tpc = "read"
    /\ lg[Tracker] = "none"
    /\ was_online' = Get(station_status, station, FALSE)
    /\ tpc' = Compare(station \in online_callsigns, was_online')
    /\ NoLog
    /\ UNCHANGED <<DISCORD_ENABLED, sharedNoLog, online_callsigns,
                   station, it_used, it_ahead, it_started, hlocals,
                   nEvents, pingAll, feedHist, rmHist, tickHist,
                   reqHist, hRaw, hLogged, view, tickSteady,
                   addedFresh, tickFirst, everMonitored, lastPing,
                   tickFailed, tickLogged, failedFor, nToggles,
                   hInFlight, hTickAfter>>

(***************************************************************************)
(* send_ping (app.py:99-112): the delivery is external and may succeed,    *)
(* raise Forbidden or raise anything else; each outcome logs one line.     *)
(***************************************************************************)
Deliveries == {"sent", "forbidden", "failed"}

\* the outcomes the model lets the next delivery have
NextDeliveries == IF nFailed < MaxFailures THEN Deliveries ELSE {"sent"}

PingLine(delivery) ==
    IF ~ DISCORD_ENABLED THEN "Discord integration disabled - message not sent"
    ELSE IF delivery = "sent" THEN "Discord message sent"
    ELSE IF delivery = "forbidden" THEN "ERROR: Discord Forbidden"
    ELSE "ERROR sending Discord message"

SendPing(delivery) ==
    /\ delivery \in NextDeliveries
    /\ LogAppend(Tracker, PingLine(delivery), NoStation)
    /\ nFailed' = IF delivery = "sent" THEN nFailed ELSE nFailed + 1

\* the station of a transition ping that was not delivered
Undelivered(delivery, s) == IF delivery = "sent" THEN {} ELSE {s}

\* faulty variant: send_ping lets the exception of a failed delivery through, to
\* the tick's `except Exception`
AfterPingRaises(delivery, next) == IF delivery = "sent" THEN next ELSE AfterRaise

\* send_ping catches what the delivery raises (app.py:109-112): the tick goes on
\* with the line after the call whatever the outcome
AfterPing(delivery, next) == next

Bump(count, s) == [count EXCEPT ![s] = @ + 1]

\* app.py:139
PingOnline(delivery) ==
    /\ tpc = "ping_on"
    /\ lg[Tracker] = "none"
    /\ SendPing(delivery)
    /\ tickPinged' = tickPinged \cup {station}
    /\ tickFailed' = tickFailed \cup Undelivered(delivery, station)
    /\ failedFor' = failedFor \cup Undelivered(delivery, station)
    /\ onPings' = Bump(onPings, station)
    /\ lastPing' = [lastPing EXCEPT ![station] = "on"]
    /\ tpc' = AfterPing(delivery, "log_on")
    /\ UNCHANGED <<DISCORD_ENABLED, sharedNoLog, online_callsigns,
                   station, was_online, it_used, it_ahead, it_started,
                   hlocals, nEvents, offPings, feedHist, rmHist,
                   tickPayload, tickExc, tickWarned, tickErrLogged,
                   tickWritten, tickDebugSeen, tickDbgPings, prevExc,
                   reqHist, hRaw, hLogged, view, tickSteady,
                   addedFresh, tickFirst, everMonitored, tickLogged,
                   nToggles, hInFlight, hTickAfter>>

\* app.py:140
LogOnline ==
    /\ tpc = "log_on"
    /\ lg[Tracker] = "none"
    /\ LogAppend(Tracker, "logged ON", station)
    /\ tickLogged' = tickLogged \cup {station}
    /\ tpc' = "write"
    /\ UNCHANGED <<DISCORD_ENABLED, sharedNoLog, online_callsigns,
                   station, was_online, it_used, it_ahead, it_started,
                   hlocals, nEvents, pingAll, feedHist, rmHist,
                   tickHist, reqHist, hRaw, hLogged, view, tickSteady,
                   addedFresh, tickFirst, everMonitored, lastPing,
                   tickFailed, failedFor, nToggles, hInFlight,
                   hTickAfter>>

\* app.py:142
PingOffline(delivery) ==
    /\ tpc = "ping_off"
    /\ lg[Tracker] = "none"
    /\ SendPing(delivery)
    /\ tickPinged' = tickPinged \cup {station}
    /\ tickFailed' = tickFailed \cup Undelivered(delivery, station)
    /\ failedFor' = failedFor \cup Undelivered(delivery, station)
    /\ offPings' = Bump(offPings, station)
    /\ lastPing' = [lastPing EXCEPT ![station] = "off"]
    /\ tpc' = AfterPing(delivery, "log_off")
    /\ UNCHANGED <<DISCORD_ENABLED, sharedNoLog, online_callsigns,
                   station, was_online, it_used, it_ahead, it_started,
                   hlocals, nEvents, onPings, feedHist, rmHist,
                   tickPayload, tickExc, tickWarned, tickErrLogged,
                   tickWritten, tickDebugSeen, tickDbgPings, prevExc,
                   reqHist, hRaw, hLogged, view, tickSteady,
                   addedFresh, tickFirst, everMonitored, tickLogged,
                   nToggles, hInFlight, hTickAfter>>

\* app.py:143
LogOffline ==
    /\ tpc = "log_off"
    /\ lg[Tracker] = "none"
    /\ LogAppend(Tracker, "logged OFF", station)
    /\ tickLogged' = tickLogged \cup {station}
    /\ tpc' = "write"
    /\ UNCHANGED <<DISCORD_ENABLED, sharedNoLog, online_callsigns,
                   station, was_online, it_used, it_ahead, it_started,
                   hlocals, nEvents, pingAll, feedHist, rmHist,
                   tickHist, reqHist, hRaw, hLogged, view, tickSteady,
                   addedFresh, tickFirst, everMonitored, lastPing,
                   tickFailed, failedFor, nToggles, hInFlight,
                   hTickAfter>>

\* app.py:145
WriteStatus ==
    /\ tpc = "write"
    /\ lg[Tracker] = "none"
    /\ station_status' = Put(station_status, station, station \in online_callsigns)
    /\ tickWritten' = tickWritten \cup {station}
    /\ addedFresh' = addedFresh \ {station}
    /\ was_online' = FALSE
    /\ tpc' = "next"
    /\ NoLog
    /\ UNCHANGED <<DISCORD_ENABLED, monitored_stations, debug_mode,
                   online_callsigns, station, it_used, it_ahead,
                   it_started, hlocals, nEvents, pingAll, feedHist,
                   rmHist, tickPayload, tickExc, tickWarned,
                   tickErrLogged, tickPinged, tickDebugSeen,
                   tickDbgPings, prevExc, reqHist, hRaw, hLogged,
                   view, tickSteady, tickFirst, everMonitored,
                   lastPing, tickFailed, tickLogged, failedFor,
                   nToggles, hInFlight, hTickAfter>>

\* the tick returns: the history of removals advances
TickEnd ==
    /\ tpc' = "idle"
    /\ online_callsigns' = {}
    /\ sinceRemoved' = [s \in Stations |-> IF sinceRemoved[s] = 2 THEN 3 ELSE sinceRemoved[s]]

\* faulty variant: the debug ping sits inside the try block
WantsDebugPingInTry == debug_mode /\ tickExc = "none"

\* app.py:151, `if debug_mode`
WantsDebugPing == debug_mode

\* app.py:151
DebugCheck ==
    /\ tpc = "debug"
    /\ lg[Tracker] = "none"
    /\ IF WantsDebugPing
       THEN /\ tpc' = "dbg_ping"
            /\ UNCHANGED <<online_callsigns, sinceRemoved>>
       ELSE TickEnd
    /\ NoLog
    /\ UNCHANGED <<DISCORD_ENABLED, sharedNoLog, station, was_online,
                   it_used, it_ahead, it_started, hlocals, nEvents,
                   pingAll, feedHist, everRemoved, tickHist, reqHist,
                   hRaw, hLogged, view, tickSteady, addedFresh,
                   tickFirst, everMonitored, lastPing, tickFailed,
                   tickLogged, failedFor, nToggles, hInFlight,
                   hTickAfter>>

\* app.py:152
DebugPing(delivery) ==
    /\ tpc = "dbg_ping"
    /\ lg[Tracker] = "none"
    /\ SendPing(delivery)
    /\ tickDbgPings' = tickDbgPings + 1
    /\ tpc' = "dbg_log"
    /\ UNCHANGED <<DISCORD_ENABLED, sharedNoLog, online_callsigns,
                   station, was_online, it_used, it_ahead, it_started,
                   hlocals, nEvents, pingHist, feedHist, rmHist,
                   tickPayload, tickExc, tickWarned, tickErrLogged,
                   tickWritten, tickPinged, tickDebugSeen, prevExc,
                   reqHist, hRaw, hLogged, view, tickSteady,
                   addedFresh, tickFirst, everMonitored, lastPing,
                   tickFailed, tickLogged, failedFor, nToggles,
                   hInFlight, hTickAfter>>

\* app.py:153
DebugLog ==
    /\ tpc = "dbg_log"
    /\ lg[Tracker] = "none"
    /\ LogAppend(Tracker, "Debug ping sent", NoStation)
    /\ TickEnd
    /\ UNCHANGED <<DISCORD_ENABLED, sharedNoLog, station, was_online,
                   it_used, it_ahead, it_started, hlocals, nEvents,
                   pingAll, feedHist, everRemoved, tickHist, reqHist,
                   hRaw, hLogged, view, tickSteady, addedFresh,
                   tickFirst, everMonitored, lastPing, tickFailed,
                   tickLogged, failedFor, nToggles, hInFlight,
                   hTickAfter>>

(***************************************************************************)
(* index: the POST requests (app.py:63-84)                                 *)
(***************************************************************************)
CanStartRequest ==
    /\ hpc = "idle"
    /\ lg[Handler] = "none"
    /\ nEvents < MaxEvents

\* Where a member inserted during an iteration lands relative to the iterator is
\* decided by its hash: ahead of the iterator or behind it.  An iterator that
\* has not yielded yet stands before every slot.
AheadAfterAdd(st) ==
    IF tpc \in IterPcs /\ st \notin monitored_stations
    THEN IF it_started THEN {it_ahead, it_ahead \cup {st}} ELSE {it_ahead \cup {st}}
    ELSE {it_ahead}

\* app.py:68-71
ReqAdd(raw) ==
    /\ CanStartRequest
    /\ nEvents' = nEvents + 1
    /\ hOp' = "add"
    /\ hRaw' = raw
    /\ hLogged' = 0
    /\ hInFlight' = TrackerBusy
    /\ hTickAfter' = FALSE
    /\ view' = NoView
    /\ tickSteady' = tickSteady \ {Normalize(raw)}
    /\ lastPing' = [s \in Stations |->
                      IF s = Normalize(raw) /\ s \notin monitored_stations
                      THEN "none" ELSE lastPing[s]]
    /\ everMonitored' = everMonitored \cup ({Normalize(raw)} \ {NoStation})
    /\ addedFresh' = addedFresh \cup ({Normalize(raw)} \ ({NoStation} \cup monitored_stations))
    /\ hAbsent' = (Normalize(raw) \notin monitored_stations)
    /\ hOverlap' = TrackerBusy
    /\ IF Normalize(raw) # NoStation
       THEN /\ monitored_stations' = monitored_stations \cup {Normalize(raw)}
            /\ it_ahead' \in AheadAfterAdd(Normalize(raw))
            /\ hstation' = Normalize(raw)
            /\ hpc' = "add_log"
            /\ sinceRemoved' = [s \in Stations |->
                                  IF s = Normalize(raw) THEN 0 ELSE sinceRemoved[s]]
       ELSE /\ hstation' = NoStation
            /\ UNCHANGED <<monitored_stations, it_ahead, hpc, sinceRemoved>>
    /\ NoLog
    /\ UNCHANGED <<DISCORD_ENABLED, station_status, debug_mode, tpc,
                   online_callsigns, station, was_online, it_used,
                   it_started, pingAll, feedHist, everRemoved,
                   tickHist, tickFirst, tickFailed, tickLogged,
                   failedFor, nToggles>>

\* app.py:72
AddLog ==
    /\ hpc = "add_log"
    /\ lg[Handler] = "none"
    /\ LogAppend(Handler, "Started monitoring", hstation)
    /\ hLogged' = hLogged + 1
    /\ hpc' = "idle"
    /\ UNCHANGED <<DISCORD_ENABLED, sharedNoLog, tlocals, hstation,
                   nEvents, pingAll, feedHist, rmHist, tickHist,
                   reqHist, hRaw, view, tickSteady, addedFresh,
                   tickFirst, everMonitored, lastPing, tickFailed,
                   tickLogged, failedFor, nToggles, hInFlight,
                   hTickAfter>>

\* app.py:74-76
ReqRemove(raw) ==
    /\ CanStartRequest
    /\ nEvents' = nEvents + 1
    /\ hOp' = "remove"
    /\ hRaw' = raw
    /\ hLogged' = 0
    /\ hInFlight' = TrackerBusy
    /\ hTickAfter' = FALSE
    /\ view' = NoView
    /\ tickSteady' = tickSteady \ {raw}
    /\ addedFresh' = addedFresh \ {raw}
    /\ hAbsent' = (raw \notin monitored_stations)
    /\ hOverlap' = TrackerBusy
    /\ hstation' = raw
    /\ monitored_stations' = monitored_stations \ {raw}
    /\ it_ahead' = it_ahead \ {raw}
    /\ everRemoved' = everRemoved \cup {raw}
    /\ hpc' = "rm_pop"
    /\ NoLog
    /\ UNCHANGED <<DISCORD_ENABLED, station_status, debug_mode, tpc,
                   online_callsigns, station, was_online, it_used,
                   it_started, pingAll, feedHist, sinceRemoved,
                   tickHist, tickFirst, everMonitored, lastPing,
                   tickFailed, tickLogged, failedFor, nToggles>>

\* app.py:77
RemovePop ==
    /\ hpc = "rm_pop"
    /\ lg[Handler] = "none"
    /\ station_status' = Pop(station_status, hstation)
    /\ sinceRemoved' = [s \in Stations |-> IF s = hstation THEN 1 ELSE sinceRemoved[s]]
    /\ hpc' = "rm_log"
    /\ NoLog
    /\ UNCHANGED <<DISCORD_ENABLED, monitored_stations, debug_mode,
                   tlocals, hstation, nEvents, pingAll, feedHist,
                   everRemoved, tickHist, reqHist, hRaw, hLogged,
                   view, tickSteady, addedFresh, tickFirst,
                   everMonitored, lastPing, tickFailed, tickLogged,
                   failedFor, nToggles, hInFlight, hTickAfter>>

\* app.py:78
RemoveLog ==
    /\ hpc = "rm_log"
    /\ lg[Handler] = "none"
    /\ LogAppend(Handler, "Stopped monitoring", hstation)
    /\ hLogged' = hLogged + 1
    /\ hpc' = "idle"
    /\ UNCHANGED <<DISCORD_ENABLED, sharedNoLog, tlocals, hstation,
                   nEvents, pingAll, feedHist, rmHist, tickHist,
                   reqHist, hRaw, view, tickSteady, addedFresh,
                   tickFirst, everMonitored, lastPing, tickFailed,
                   tickLogged, failedFor, nToggles, hInFlight,
                   hTickAfter>>

\* faulty variant: debug_mode = True
FlipSetsTrue(b) == TRUE

\* debug_mode = not debug_mode
Flip(b) == ~ b

\* app.py:80-81
ReqToggle ==
    /\ CanStartRequest
    /\ nEvents' = nEvents + 1
    /\ hOp' = "toggle"
    /\ hRaw' = NoStation
    /\ hLogged' = 0
    /\ hInFlight' = TrackerBusy
    /\ hTickAfter' = FALSE
    /\ view' = NoView
    /\ hAbsent' = FALSE
    /\ hOverlap' = TrackerBusy
    /\ hstation' = NoStation
    /\ debug_mode' = Flip(debug_mode)
    /\ nToggles' = nToggles + 1
    /\ tickDebugSeen' = IF TrackerBusy THEN tickDebugSeen \cup {debug_mode'} ELSE tickDebugSeen
    /\ hpc' = "tg_log"
    /\ NoLog
    /\ UNCHANGED <<DISCORD_ENABLED, monitored_stations,
                   station_status, tlocals, pingAll, feedHist, rmHist,
                   tickPayload, tickExc, tickWarned, tickErrLogged,
                   tickWritten, tickPinged, tickDbgPings, prevExc,
                   tickSteady, addedFresh, tickFirst, everMonitored,
                   lastPing, tickFailed, tickLogged, failedFor>>

\* app.py:82
ToggleLog ==
    /\ hpc = "tg_log"
    /\ lg[Handler] = "none"
    /\ LogAppend(Handler, IF debug_mode THEN "Debug mode ENABLED" ELSE "Debug mode DISABLED",
                 NoStation)
    /\ hLogged' = hLogged + 1
    /\ hpc' = "idle"
    /\ UNCHANGED <<DISCORD_ENABLED, sharedNoLog, tlocals, hstation,
                   nEvents, pingAll, feedHist, rmHist, tickHist,
                   reqHist, hRaw, view, tickSteady, addedFresh,
                   tickFirst, everMonitored, lastPing, tickFailed,
                   tickLogged, failedFor, nToggles, hInFlight,
                   hTickAfter>>

(***************************************************************************)
(* index: the GET request (app.py:86-91).  The arguments of render_template *)
(* are evaluated first: sorted(monitored_stations) builds a new list, logs  *)
(* is handed over as the list itself, debug_mode by value.  The template    *)
(* reads the log when render_template runs.                                 *)
(***************************************************************************)
\* app.py:86-90
ReqRender ==
    /\ CanStartRequest
    /\ nEvents' = nEvents + 1
    /\ hOp' = "render"
    /\ hRaw' = NoStation
    /\ hLogged' = 0
    /\ hInFlight' = TrackerBusy
    /\ hTickAfter' = FALSE
    /\ hAbsent' = FALSE
    /\ hOverlap' = TrackerBusy
    /\ hstation' = NoStation
    /\ view' = [stations |-> Sorted(monitored_stations), logs |-> << >>,
                debug_mode |-> debug_mode, rendered |-> FALSE]
    /\ hpc' = "render"
    /\ NoLog
    /\ UNCHANGED <<DISCORD_ENABLED, shared, tlocals, pingAll,
                   feedHist, rmHist, tickHist, tickSteady, addedFresh,
                   tickFirst, everMonitored, lastPing, tickFailed,
                   tickLogged, failedFor, nToggles>>

\* app.py:86-91, render_template running the template over its arguments
RenderTemplate ==
    /\ hpc = "render"
    /\ lg[Handler] = "none"
    /\ view' = [view EXCEPT !.logs = logs, !.rendered = TRUE]
    /\ hpc' = "idle"
    /\ NoLog
    /\ UNCHANGED <<DISCORD_ENABLED, sharedNoLog, tlocals, hstation,
                   nEvents, pingAll, feedHist, rmHist, tickHist,
                   reqHist, hRaw, hLogged, tickSteady, addedFresh,
                   tickFirst, everMonitored, lastPing, tickFailed,
                   tickLogged, failedFor, nToggles, hInFlight,
                   hTickAfter>>

Next ==
    \/ TickBegin
    \/ \E data \in Payloads : Fetch(data)
    \/ IterInit
    \/ IterRaise
    \/ \E s \in Stations : IterYield(s)
    \/ IterStop
    \/ ReadStatus
    \/ \E d \in Deliveries : PingOnline(d)
    \/ LogOnline
    \/ \E d \in Deliveries : PingOffline(d)
    \/ LogOffline
    \/ WriteStatus
    \/ DebugCheck
    \/ \E d \in Deliveries : DebugPing(d)
    \/ DebugLog
    \/ \E raw \in AddInputs : ReqAdd(raw)
    \/ AddLog
    \/ \E raw \in RemoveInputs : ReqRemove(raw)
    \/ RemovePop
    \/ RemoveLog
    \/ ReqToggle
    \/ ToggleLog
    \/ ReqRender
    \/ RenderTemplate
    \/ \E t \in Threads : LogCheck(t)
    \/ \E t \in Threads : LogPop(t)

Spec == Init /\ [][Next]_vars

(***************************************************************************)
(* Properties                                                              *)
(***************************************************************************)
TrackerMoves == tpc' # tpc \/ lg'[Tracker] # lg[Tracker]
HandlerMoves == hpc' # hpc \/ lg'[Handler] # lg[Handler]

\* the last tick wrote s as online
WroteOnline(s) == TickFinished /\ s \in tickWritten /\ s \in feedLast

OneOnlinePing(s) ==
    /\ onPings[s] <= 1
    /\ WroteOnline(s) => onPings[s] = 1

\* C1 as claimed: under any interleaving of ticks with add_station,
\* remove_station and toggle_debug, a station whose presence in the feed rises
\* from offline to online exactly once gets exactly one "is now ONLINE"
\* send_ping: never a second one, and one as soon as a tick has recorded it online.
C1_OnePingPerRise ==
    \A s \in Stations : rises[s] = 1 => OneOnlinePing(s)

\* C1 amended: the same, for a station that remove_station is not applied to.
C1_OnePingPerRiseUnlessRemoved ==
    \A s \in Stations \ everRemoved : rises[s] = 1 => OneOnlinePing(s)

\* C1 witness: requests were interleaved, the feed rose once for A, a tick
\* recorded A online and A got its one ONLINE ping.
C1_Witness ==
    /\ hOp = "toggle"
    /\ StA \notin everRemoved
    /\ rises[StA] = 1
    /\ WroteOnline(StA)
    /\ onPings[StA] = 1

\* C2: an identifier whose removal is complete (discard and pop done) and that
\* has not been added again is not a key of station_status once a tick that
\* began after the removal has returned.
C2_NoStatusAfterRemoval ==
    \A s \in Stations : sinceRemoved[s] = 3 => s \notin DOMAIN station_status

\* C3: a tick whose payload has no "controllers" key logs the WARNING line,
\* treats the online set as empty and does not raise.
C3_MissingKeyWarns ==
    (TickFinished /\ tickPayload = PNoKey) =>
        /\ tickWarned
        /\ tickExc = "none" \/ tickExc = "iter"
        /\ feedLast = {}

\* every entry of the log is the entry appended at its place: the log is the
\* suffix of the sequence of all entries ever appended
LogIsSuffix == \A i \in 1..Len(logs) : logs[i].n + Len(logs) = nAppended + i

InsideLog == {t \in Threads : lg[t] # "none"}

\* C4 as claimed: in every reachable state, also between the steps of
\* concurrent log() calls, the log holds at most LogCap entries and is a suffix
\* of everything appended.
C4_NeverOverCap == Len(logs) <= LogCap /\ LogIsSuffix

\* C4 amended: the log holds at most LogCap entries whenever no log() call is
\* between its append and the end of its eviction, at most one more per call
\* that is, and it is always a suffix of everything appended.
C4_CapOutsideLogCalls ==
    /\ Len(logs) <= LogCap + Cardinality(InsideLog)
    /\ LogIsSuffix

\* C4 witness: both threads have appended to a full log and neither has evicted.
C4_Witness == Len(logs) = LogCap + 2 /\ InsideLog = Threads

\* a step that makes a transition send_ping for s is a step of the tick holding
\* s with a computed value that differs from the status it read
C5_PingOnlyOnChange ==
    \A s \in Stations :
        (onPings'[s] # onPings[s] \/ offPings'[s] # offPings[s]) =>
            /\ station = s
            /\ (s \in online_callsigns) # was_online

\* a station that is not removed has no more pings than the feed changed for it
C5_NoPingWhileSteady ==
    \A s \in Stations \ everRemoved :
        /\ onPings[s] <= rises[s]
        /\ offPings[s] <= falls[s]

\* C5: a transition send_ping for a station is made only by the tick holding
\* that station with a computed value that differs from the status it read;
\* and a station that is not removed never gets more ONLINE pings than the feed
\* rose for it nor more OFFLINE pings than the feed fell for it, so none while
\* it stays online or stays offline, whatever ticks fail in between.
C5_UnchangedIsSilent == [][C5_PingOnlyOnChange]_vars /\ []C5_NoPingWhileSteady

\* C5 witness: a tick after a failed tick has recorded A online again without
\* a ping: A got its one ONLINE ping earlier and none since.
C5_Witness ==
    /\ WroteOnline(StA)
    /\ StA \notin tickPinged
    /\ prevExc = "fetch"
    /\ onPings[StA] = 1
    /\ offPings[StA] = 0
    /\ StA \notin everRemoved

\* C6: a tick during which debug_mode was true throughout makes exactly one
\* debug send_ping, also when its fetch or parse failed; a tick during which it
\* was false throughout makes none; no tick makes more than one.
C6_DebugPingPerTick ==
    /\ tickDbgPings <= 1
    /\ TickFinished =>
        /\ tickDebugSeen = {TRUE} => tickDbgPings = 1
        /\ tickDebugSeen = {FALSE} => tickDbgPings = 0

\* C6 witness: a tick whose fetch failed ran with debug_mode true and made its
\* debug ping.
C6_Witness ==
    /\ TickFinished
    /\ tickDebugSeen = {TRUE}
    /\ tickExc = "fetch"
    /\ tickDbgPings = 1

\* C7: once the remove handler has returned, its identifier is not monitored,
\* and, no tick having been in flight during the request, has no status entry.
C7_RemoveClears ==
    (hOp = "remove" /\ ~ HandlerBusy) =>
        /\ hstation \notin monitored_stations
        /\ ~ hOverlap => hstation \notin DOMAIN station_status

\* C7 witness: A was monitored, a complete tick recorded and announced it, and
\* remove_station(A) has returned with both entries gone.
C7_Witness ==
    /\ hOp = "remove"
    /\ ~ HandlerBusy
    /\ ~ hOverlap
    /\ ~ hAbsent
    /\ hstation = StA
    /\ StA \in tickWritten
    /\ onPings[StA] = 1
    /\ StA \notin DOMAIN station_status

FeedRaised == {"fetch", "parse"}

\* no step of a tick whose fetch or parse raised changes the two collections
C8_FailedTickFrame ==
    (tickExc' \in FeedRaised /\ TrackerMoves) =>
        UNCHANGED <<station_status, monitored_stations>>

\* such a tick has logged the ERROR line, writes and announces nothing, and goes
\* on to the debug section
C8_FailedTickLogs ==
    /\ tickExc \in FeedRaised => (tickErrLogged /\ tickWritten = {} /\ tickPinged = {})
    /\ (tickExc \in FeedRaised /\ tpc # "idle") => tpc \in {"debug", "dbg_ping", "dbg_log"}

\* C8: no step of a tick whose fetch or parse raised changes station_status or
\* monitored_stations; the tick logs the ERROR line, writes and announces
\* nothing and goes on to its debug section and its return, after which the
\* next tick compares against the status recorded before the failure.
C8_FailedTickIsContained == [][C8_FailedTickFrame]_vars /\ []C8_FailedTickLogs

\* C8 witness: the tick after a failed one has run normally and has announced
\* the transition of A against the status recorded before the failure.
C8_Witness ==
    /\ TickFinished
    /\ prevExc \in FeedRaised
    /\ tickExc = "none"
    /\ StA \in tickPinged
    /\ StA \in tickWritten

\* C9: no payload that is a JSON document makes the tick raise in lines 127-132:
\* the unusable part counts as an empty online set and the loop over the
\* monitored stations is entered.
C9_MalformedNeverAborts ==
    ~ tickPayload.raises => tickExc # "parse"

\* a step of remove_station on an identifier that was not monitored at its start
C10_RemoveAbsentFrame ==
    (hOp' = "remove" /\ hAbsent' /\ HandlerMoves) => UNCHANGED shared

\* C10: no step of remove_station on an identifier that was not monitored
\* changes monitored_stations, station_status, debug_mode or the log.
C10_RemoveAbsentIsNoOp == [][C10_RemoveAbsentFrame]_vars

\* a step by which a request enters its handler, and any step of the handler
RequestBegins == nEvents' # nEvents /\ tpc' = tpc
HandlerSteps == RequestBegins \/ HandlerMoves

\* st is raw without its leading and trailing blanks and with its letters in
\* upper case
IsUpperTrimmed(raw, st) ==
    \E i \in 1..(Len(raw) + 1), j \in 0..Len(raw) :
        /\ \A k \in 1..(i - 1) : raw[k] = " "
        /\ \A k \in (j + 1)..Len(raw) : raw[k] = " "
        /\ Len(st) + i = j + 1
        /\ \A k \in 1..Len(st) : st[k] = UpperChar(raw[i + k - 1])
        /\ st # << >> => (st[1] # " " /\ st[Len(st)] # " ")

\* what a log() call of the handler does to the log: its append or its eviction
HandlerLogged(k, s) ==
    \/ logs' = logs
    \/ logs' = Append(logs, Entry(k, s, nAppended + 1))
    \/ Len(logs) > LogCap /\ logs' = Tail(logs)

\* a step of add_station
C11_AddStep ==
    (hOp' = "add" /\ HandlerSteps) =>
        /\ UNCHANGED <<station_status, debug_mode>>
        /\ IF IsUpperTrimmed(hRaw', NoStation)
           THEN UNCHANGED <<monitored_stations, logs>>
           ELSE /\ IsUpperTrimmed(hRaw', hstation')
                /\ monitored_stations' = IF RequestBegins
                                         THEN monitored_stations \cup {hstation'}
                                         ELSE monitored_stations
                /\ HandlerLogged("Started monitoring", hstation')

\* add_station has returned
C11_AddReturned ==
    (hOp = "add" /\ ~ HandlerBusy) =>
        IF IsUpperTrimmed(hRaw, NoStation)
        THEN hLogged = 0
        ELSE hLogged = 1 /\ hstation \in monitored_stations

\* C11: add_station with an input that is empty after trimming changes none of
\* monitored_stations, station_status, debug_mode and the log; with any other
\* input it inserts exactly the upper-cased, trimmed identifier into
\* monitored_stations, makes one log() call naming it, and changes neither
\* station_status nor debug_mode.
C11_AddStation == [][C11_AddStep]_vars /\ []C11_AddReturned

\* C11 witness: add_station("b ") has returned during a tick: B is monitored
\* next to A and the handler's one line is the newest of the log.
C11_Witness ==
    /\ hOp = "add"
    /\ ~ HandlerBusy
    /\ TrackerBusy
    /\ hRaw = <<"b", " ">>
    /\ monitored_stations = {StA, StB}
    /\ hLogged = 1
    /\ logs[Len(logs)] = Entry("Started monitoring", StB, nAppended)

\* seq lists the members of S once each, in ascending order
IsSortedListing(seq, S) ==
    /\ Len(seq) = Cardinality(S)
    /\ {seq[i] : i \in 1..Len(seq)} = S
    /\ \A i, j \in 1..Len(seq) : i < j => StrLess(seq[i], seq[j])

\* a step of the GET request
C12_RenderStep ==
    (hOp' = "render" /\ HandlerSteps) =>
        /\ UNCHANGED shared
        /\ hpc' = "idle" => (view'.rendered /\ view'.logs = logs)

\* the GET request has returned
C12_RenderReturned ==
    (hOp = "render" /\ ~ HandlerBusy) =>
        /\ IsSortedListing(view.stations, monitored_stations)
        /\ view.debug_mode = debug_mode

\* C12: no step of a GET request changes monitored_stations, station_status,
\* the log or debug_mode; the page it returns lists the monitored identifiers
\* once each in ascending order, holds the log as it is when the template is
\* rendered, and the debug flag.
C12_RenderReadOnly == [][C12_RenderStep]_vars /\ []C12_RenderReturned

\* C12 witness: a GET request made during a tick has returned a page listing
\* A before B and a log that is not empty.
C12_Witness ==
    /\ hOp = "render"
    /\ ~ HandlerBusy
    /\ hOverlap
    /\ view.rendered
    /\ view.stations = <<StA, StB>>
    /\ view.logs # << >>

\* C13: with the notification integration disabled the tracker still ticks:
\* whenever no tick is in progress the next tick can begin, and its send_ping
\* calls log the "disabled" line instead of delivering.
C13_DisabledStillTicks ==
    (~ DISCORD_ENABLED /\ ~ TrackerBusy /\ nEvents < MaxEvents) => ENABLED TickBegin

\* C14: once a tick whose fetch and parse succeeded has returned, every station
\* that was monitored when it began and that no add_station or remove_station
\* was applied to since has its membership in the tick's online set as its
\* status, whatever requests on other identifiers ran during the tick.
C14_TickUpdatesEveryStation ==
    (TickFinished /\ tickExc \notin FeedRaised) =>
        \A s \in tickSteady :
            /\ s \in DOMAIN station_status
            /\ station_status[s] = (s \in feedLast)

\* a station added and not yet written by a tick has no status entry
C15_NoEntryBeforeFirstTick ==
    \A s \in addedFresh : s \notin DOMAIN station_status

\* once a tick whose fetch and parse succeeded has returned, a station that was
\* added before it began, that no tick had written and that no request was
\* applied to since has an entry, and was announced ONLINE by that tick exactly
\* when the tick found it online
C15_FirstTickAgainstFalse ==
    (TickFinished /\ tickExc \notin FeedRaised) =>
        \A s \in tickFirst \cap tickSteady :
            /\ s \in DOMAIN station_status
            /\ (s \in tickPinged) = (s \in feedLast)
            /\ offPings[s] = 0

\* C15: a newly added station has no station_status entry until a tick
\* processes it; the first tick whose fetch succeeds after the add compares it
\* against False, so it announces the station ONLINE exactly when the station is
\* online, never OFFLINE, and leaves an entry for it.
C15_NewStationBaseline == C15_NoEntryBeforeFirstTick /\ C15_FirstTickAgainstFalse

\* every key of station_status has been monitored
C16_StatusKeysWereMonitored == DOMAIN station_status \subseteq everMonitored

\* a step that creates or sets an entry of station_status is the tick's write
\* for the station it holds; a step that changes monitored_stations or
\* debug_mode is a step of a request handler
C16_OnlyTickSets ==
    /\ \A s \in DOMAIN station_status' :
          (s \notin DOMAIN station_status \/ station_status'[s] # station_status[s]) =>
              /\ TrackerMoves
              /\ ~ HandlerSteps
              /\ tpc = "write"
              /\ station = s
    /\ (monitored_stations' # monitored_stations \/ debug_mode' # debug_mode) =>
          /\ HandlerSteps
          /\ ~ TrackerMoves

\* C16: every key of station_status has been a member of monitored_stations;
\* only the tick's write creates or sets an entry, no step of add_station,
\* remove_station, toggle_debug or the GET request does; and no step of the
\* tick changes monitored_stations or debug_mode.
C16_StatusOwnedByTick == [][C16_OnlyTickSets]_vars /\ []C16_StatusKeysWereMonitored

\* C16 witness: B was added, a tick has written its status and has returned,
\* and B has been removed: station_status holds an entry for B, which was
\* monitored earlier and is not any more.
C16_Witness ==
    /\ TickFinished
    /\ ~ HandlerBusy
    /\ hOp = "remove"
    /\ StB \in tickWritten
    /\ StB \in DOMAIN station_status
    /\ StB \in everMonitored
    /\ StB \notin monitored_stations

\* C17: a transition send_ping for a station that is monitored is an ONLINE one
\* when the station has had none or an OFFLINE one since it was last added, and
\* an OFFLINE one when its last was an ONLINE one: the notifications of a
\* station that stays monitored alternate, starting with ONLINE.
C17_PingsAlternate ==
    [][\A s \in monitored_stations \cap Stations :
          /\ onPings'[s] # onPings[s] => lastPing[s] # "on"
          /\ offPings'[s] # offPings[s] => lastPing[s] = "on"]_vars

\* a station whose transition ping was not delivered on this tick has its
\* transition logged and its status written by this tick, or is the station the
\* tick holds on its way there
C18_FailedPingGoesOn ==
    \A s \in tickFailed :
        /\ s \in tickLogged \/ (station = s /\ tpc \in {"log_on", "log_off"})
        /\ s \in tickWritten \/ (station = s /\ tpc \in {"log_on", "log_off", "write"})

\* a station that had a ping not delivered, and is not removed, has no more
\* pings than the feed changed for it: none is sent a second time
C18_FailedPingNotRetried ==
    \A s \in failedFor \ everRemoved :
        /\ onPings[s] <= rises[s]
        /\ offPings[s] <= falls[s]

\* C18: when the delivery of a transition ping fails, with Forbidden or with any
\* other exception, the tick still logs the transition, writes the new status
\* and goes on with the loop; no later tick sends the ping again.
C18_DeliveryFailureSwallowed == C18_FailedPingGoesOn /\ C18_FailedPingNotRetried

\* C18 witness: the ONLINE ping for A was not delivered; the tick has logged A's
\* transition, has recorded A online, and now holds B, about to write its status.
C18_Witness ==
    /\ StA \in tickFailed
    /\ StA \in tickLogged
    /\ StA \in tickWritten
    /\ StA \in DOMAIN station_status
    /\ station_status[StA]
    /\ station = StB
    /\ tpc = "write"

\* a step of toggle_debug
C19_ToggleStep ==
    (hOp' = "toggle" /\ HandlerSteps) =>
        /\ UNCHANGED <<monitored_stations, station_status>>
        /\ IF RequestBegins
           THEN debug_mode' = ~ debug_mode /\ logs' = logs
           ELSE /\ debug_mode' = debug_mode
                /\ HandlerLogged(IF debug_mode THEN "Debug mode ENABLED"
                                 ELSE "Debug mode DISABLED", NoStation)

\* debug_mode, false at start-up, is true after an odd number of toggles and
\* false after an even number; toggle_debug makes one log() call; the tick that
\* began after the toggle makes the debug ping exactly when the flag is set
C19_ToggleState ==
    /\ debug_mode = (nToggles % 2 = 1)
    /\ (hOp = "toggle" /\ ~ HandlerBusy) => hLogged = 1
    /\ (hOp = "toggle" /\ hTickAfter /\ TickFinished) =>
           tickDbgPings = (IF debug_mode THEN 1 ELSE 0)

\* C19: toggle_debug flips debug_mode, makes one log() call naming the new
\* state and changes neither monitored_stations nor station_status; two toggles
\* restore the flag; and the tick that begins after a toggle, also one made
\* while a tick was in flight, makes its debug ping according to the new value.
C19_ToggleDebug == [][C19_ToggleStep]_vars /\ []C19_ToggleState

\* C19 witness: debug mode was switched on while a tick was in flight, and the
\* next tick has returned with its debug ping made.
C19_Witness ==
    /\ hOp = "toggle"
    /\ hInFlight
    /\ hTickAfter
    /\ TickFinished
    /\ debug_mode
    /\ nToggles = 1
    /\ tickDbgPings = 1

====
